---- MODULE Spec2Model ----
(***************************************************************************)
(* Hayes AT command emulator of esp_slip_router (src/driver/hayes.c).      *)
(*                                                                         *)
(* The model follows the C code function by function.  A byte is an        *)
(* integer 0..255.  Every C function that works on the global `modem` is   *)
(* an operator on a record w that holds the fields of modem.state and      *)
(* modem.prefs together with what the call has produced so far:            *)
(*   out     the characters written with CHAR_OUT, grouped into events     *)
(*   log     the command handlers h_cmdparse has invoked, in order         *)
(*   sunk    the bytes handed to slip_rx                                   *)
(*   handled the value h_handler returns                                   *)
(*   sys     "running", "restarting" (system_restart was called and the    *)
(*           call never returns) or "hung" (h_cmdparse never leaves its    *)
(*           loop)                                                         *)
(* One action, h_handler, delivers one byte.                               *)
(***************************************************************************)
EXTENDS Integers, Sequences, FiniteSets, TLC

VARIABLES
    modem,      \* hayes_t modem: the fields of .state and .prefs
    sys,        \* "running" | "restarting" | "hung"
    out,        \* output events of the last h_handler call
    log,        \* command handlers invoked by the last h_handler call
    sunk,       \* bytes the last h_handler call passed to slip_rx
    bytes_out,  \* the caller's counter *bytes_out
    handled,    \* return value of the last h_handler call
    chr,        \* the byte the last h_handler call received
    streak,     \* escape characters received in a row, while online, since
                \* the last state with no partial escape sequence outstanding
    entered,    \* the command line most recently terminated, and whether the
                \* buffer has overflowed since
    script,     \* bytes the environment delivers first, in order
    pc,         \* index in script of the next scripted byte
    inputs      \* bytes the environment may deliver once the script is over

vars == <<modem, sys, out, log, sunk, bytes_out, handled, chr, streak,
          entered, script, pc, inputs>>

-----------------------------------------------------------------------------
(* Bounds of the model *)

\* Free input never makes a command line longer than this; scripts may.
MaxLine == 2
\* The forwarded-byte counter is followed up to this value.
MaxBytes == 3
\* Iterations of the h_cmdparse loop after which the call is taken to hang.
MaxScan == 90

-----------------------------------------------------------------------------
(* Program constants *)

CMDBUF_LEN == 40
ESC_CHR == 43
CR == 13
LF == 10
BS == 8
DC1 == 17
DC3 == 19

\* Character literals of the C source.
Ascii ==
    [c \in {"0","1","2","3","4","5","6","7","8","9"} |->
        CASE c = "0" -> 48 [] c = "1" -> 49 [] c = "2" -> 50 [] c = "3" -> 51
          [] c = "4" -> 52 [] c = "5" -> 53 [] c = "6" -> 54 [] c = "7" -> 55
          [] c = "8" -> 56 [] c = "9" -> 57]
    @@ [c \in {"A","D","E","F","H","I","L","M","O","P","Q","R","S","T","V",
               "W","X","Z"} |->
        CASE c = "A" -> 65 [] c = "D" -> 68 [] c = "E" -> 69 [] c = "F" -> 70
          [] c = "H" -> 72 [] c = "I" -> 73 [] c = "L" -> 76 [] c = "M" -> 77
          [] c = "O" -> 79 [] c = "P" -> 80 [] c = "Q" -> 81 [] c = "R" -> 82
          [] c = "S" -> 83 [] c = "T" -> 84 [] c = "V" -> 86 [] c = "W" -> 87
          [] c = "X" -> 88 [] c = "Z" -> 90]
    @@ [c \in {"!","\"","#","$","&","*","+",",",".","/",":",";","=","?","@",
               "x","NUL","BS","LF","CR"} |->
        CASE c = "!" -> 33 [] c = "\"" -> 34 [] c = "#" -> 35 [] c = "$" -> 36
          [] c = "&" -> 38 [] c = "*" -> 42 [] c = "+" -> 43 [] c = "," -> 44
          [] c = "." -> 46 [] c = "/" -> 47 [] c = ":" -> 58 [] c = ";" -> 59
          [] c = "=" -> 61 [] c = "?" -> 63 [] c = "@" -> 64 [] c = "x" -> 120
          [] c = "NUL" -> 0 [] c = "BS" -> 8 [] c = "LF" -> 10 [] c = "CR" -> 13]

\* A C string: the bytes of a sequence of characters.
Str(s) == [k \in DOMAIN s |-> Ascii[s[k]]]

\* The S-register bank modem.prefs.regs.
RegIndex == 0 .. 44

\* REG_ESC, REG_CR, REG_LF, REG_BS, REG_XON, REG_XOFF: the character registers.
REG_ESC(w) == w.regs[2]
REG_CR(w) == w.regs[3]
REG_LF(w) == w.regs[4]
REG_BS(w) == w.regs[5]

\* An indeterminate byte: a read past the end of cmdbuf.
Junk == {0, 255}

\* What the C standard leaves open in one call of h_handler:
\*   lhs_first  in `i += f(++i)` the left i is read before ++i takes effect
\*   junk       the value of an indeterminate byte
UB == [lhs_first : BOOLEAN, junk : Junk]

-----------------------------------------------------------------------------
(* Output *)

\* CHAR_OUT of one echoed character.
EchoEvent(c) == [k |-> "echo", s |-> "", n |-> 0, v |-> <<c>>]
\* h_print of a result string (verbose) or h_print_i of its code.
ResultEvent(res, verbose) ==
    [k |-> IF verbose THEN "text" ELSE "code", s |-> res, n |-> 0, v |-> <<>>]
\* h_print of a register report, `ch` telling %c from %u.
RegEvent(reg, ch, txt) ==
    [k |-> IF ch THEN "reg_c" ELSE "reg_i", s |-> "", n |-> reg, v |-> txt]
\* h_print of an information text of ATI.
InfoEvent(name) == [k |-> "info", s |-> name, n |-> 0, v |-> <<>>]

IsResult(e) == e.k \in {"text", "code"}
Results(o) == SelectSeq(o, IsResult)
ResultNames(o) == [k \in DOMAIN Results(o) |-> Results(o)[k].s]

Emit(w, e) == [w EXCEPT !.out = Append(@, e)]
Log(w, h, i, a) == [w EXCEPT !.log = Append(@, [h |-> h, i |-> i, a |-> a])]

\* os_sprintf("%u", n) for a uint8_t.
RECURSIVE Fmt_u(_)
Fmt_u(n) == IF n < 10 THEN <<48 + n>> ELSE Append(Fmt_u(n \div 10), 48 + (n % 10))

-----------------------------------------------------------------------------
(* Helpers *)

h_is_num(c) == c > 47 /\ c < 59

h_parse_num(c) == (c - 48) % 256

\* modem.state.cmdbuf[i]
At(w, i, ub) == IF i < CMDBUF_LEN THEN w.cmdbuf[i + 1] ELSE ub.junk

\* h_multi_parse_num reading two digits at most.
h_multi_parse_num_two_digits(w, i, ub) ==
    IF ~h_is_num(At(w, i, ub)) THEN 0
    ELSE IF i + 1 < w.cmd_i /\ h_is_num(At(w, i + 1, ub))
         THEN (10 * h_parse_num(At(w, i, ub))
               + h_parse_num(At(w, i + 1, ub))) % 256
         ELSE h_parse_num(At(w, i, ub))

h_multi_parse_num(w, i, ub) ==
    IF ~h_is_num(At(w, i, ub)) THEN 0
    ELSE IF i + 1 < w.cmd_i /\ h_is_num(At(w, i + 1, ub))
         THEN IF i + 2 < w.cmd_i /\ h_is_num(At(w, i + 2, ub))
              THEN (100 * h_parse_num(At(w, i, ub))
                    + 10 * h_parse_num(At(w, i + 1, ub))
                    + h_parse_num(At(w, i + 2, ub))) % 256
              ELSE (10 * h_parse_num(At(w, i, ub))
                    + h_parse_num(At(w, i + 1, ub))) % 256
         ELSE h_parse_num(At(w, i, ub))

\* h_echo swallowing every character that follows a carriage return.
h_echo_after_cr(w, c) ==
    IF ~w.echo THEN w
    ELSE IF w.l_chr = REG_CR(w) THEN w
    ELSE Emit(w, EchoEvent(c))

h_echo(w, c) ==
    IF ~w.echo THEN w
    ELSE IF c = REG_LF(w) /\ w.l_chr = REG_CR(w) THEN w
    ELSE Emit(w, EchoEvent(c))

h_result_send(w, res) ==
    IF w.quiet THEN w ELSE Emit(w, ResultEvent(res, w.verbose))

h_result_connbaud(w) ==
    IF w.quiet THEN w ELSE Emit(w, ResultEvent("CONNECT_BAUD", w.verbose))

\* h_result without any test of the quiet preference.
h_result_noquiet(w, res) == Emit(w, ResultEvent(res, w.verbose))

h_result(w, res) ==
    IF w.quiet THEN w
    ELSE IF res = "CONNECT_BAUD" THEN h_result_connbaud(w)
    ELSE h_result_send(w, res)

\* h_dial going online without marking the call.
h_dial_no_call(w, go_online) ==
    h_result([w EXCEPT !.online = go_online], "CONNECT_BAUD")

h_dial(w, go_online) ==
    h_result([w EXCEPT !.in_call = TRUE, !.online = go_online], "CONNECT_BAUD")

-----------------------------------------------------------------------------
(* AT command implementations.  A handler that returns a value returns     *)
(* [w, ok] (argument used) or [w, ret] (characters consumed).              *)

ht_ATDOLLAR(w) == h_result(w, "OKAY")

ht_ATAMPDOLLAR(w) == h_result(w, "OKAY")

hz_ATA(w) == h_result([w EXCEPT !.on_hook = FALSE, !.in_call = TRUE], "OKAY")

h_ATA(w, a) ==
    IF a # Ascii["0"] THEN [w |-> w, ok |-> FALSE]
    ELSE [w |-> h_result([w EXCEPT !.on_hook = FALSE, !.in_call = TRUE], "OKAY"),
          ok |-> TRUE]

ht_ATDDOLLAR(w) == h_result(w, "OKAY")

ht_ATDL(w) == h_dial([w EXCEPT !.on_hook = FALSE], TRUE)

\* The characters a dial string is made of, besides the digits.
DialSymbols ==
    {Ascii[","], Ascii["@"], Ascii["."], Ascii["W"], Ascii["#"], Ascii["!"],
     Ascii["$"], Ascii["&"], Ascii[";"], Ascii["*"], Ascii["\""]}

\* The while loop of ht_ATDN, from the state d = [taken, go_online, pause_time].
RECURSIVE ATDN_loop(_, _, _, _)
ATDN_loop(w, i, d, ub) ==
    IF ~(i + d.taken < w.cmd_i) THEN d
    ELSE LET c == At(w, i + d.taken, ub) IN
         IF ~h_is_num(c) /\ c \notin DialSymbols THEN d
         ELSE ATDN_loop(w, i,
                [taken |-> (d.taken + 1) % 256,
                 go_online |-> IF c = Ascii[";"] THEN FALSE ELSE d.go_online,
                 pause_time |-> IF c \in {Ascii[","], Ascii["W"], Ascii["@"]}
                                THEN (d.pause_time + 2) % 256 ELSE d.pause_time],
                ub)

ht_ATDN(w, i, ub) ==
    LET w1 == [w EXCEPT !.on_hook = FALSE]
        d == ATDN_loop(w1, i, [taken |-> 1, go_online |-> TRUE, pause_time |-> 0], ub)
    IN [w |-> h_dial(w1, d.go_online), ret |-> d.taken]

hz_ATD(w) == h_result(w, "ERROR")

ht_ATD(w, i, ub) ==
    LET c == At(w, i, ub) IN
    IF c = Ascii["L"] THEN [w |-> ht_ATDL(w), ret |-> 1]
    ELSE IF c \in {Ascii["P"], Ascii["R"], Ascii["T"]} THEN ht_ATDN(w, i, ub)
    ELSE IF c = Ascii["S"] THEN [w |-> h_result(w, "ERROR"), ret |-> 1]
    ELSE IF c = Ascii["$"] THEN [w |-> ht_ATDDOLLAR(w), ret |-> 1]
    ELSE IF h_is_num(c)
         THEN LET r == ht_ATDN(w, (i - 1) % 256, ub)
              IN [w |-> r.w, ret |-> (r.ret - 1) % 256]
    ELSE [w |-> h_result(w, "ERROR"), ret |-> (CMDBUF_LEN - i) % 256]

h_ATE(w, a) ==
    LET w1 == h_result(w, "OKAY") IN
    IF a # Ascii["0"] /\ a # Ascii["1"]
    THEN [w |-> [w1 EXCEPT !.echo = FALSE], ok |-> FALSE]
    ELSE [w |-> [w1 EXCEPT !.echo = (a = Ascii["1"])], ok |-> TRUE]

hz_ATE(w) == h_result([w EXCEPT !.echo = FALSE], "OKAY")

hz_ATI(w) == h_result(w, "ERROR")

ht_ATI(w, i, ub) ==
    IF ~h_is_num(At(w, i, ub)) THEN h_result(w, "ERROR")
    ELSE LET method == h_multi_parse_num(w, i, ub) IN
         CASE method = 0 -> h_result(Emit(w, InfoEvent("model")), "OKAY")
           [] method = 1 -> h_result(Emit(w, InfoEvent("checksum")), "OKAY")
           [] method = 3 -> h_result(Emit(w, InfoEvent("version")), "OKAY")
           [] method = 4 -> h_result(Emit(w, InfoEvent("settings")), "OKAY")
           [] method = 9 -> h_result(Emit(w, InfoEvent("pnp")), "OKAY")
           [] method \in {2, 5, 6, 7, 10, 11} -> h_result(w, "OKAY")
           [] method = 19 -> h_result(Emit(w, InfoEvent("state")), "ERROR")
           [] OTHER -> h_result(w, "ERROR")

htz_ATH(w) == h_result([w EXCEPT !.on_hook = TRUE, !.in_call = FALSE], "OKAY")

ht_ATH(w, c) ==
    IF c # Ascii["0"] /\ c # Ascii["1"] THEN [w |-> htz_ATH(w), ok |-> FALSE]
    ELSE [w |-> [w EXCEPT !.on_hook = (c = Ascii["0"])], ok |-> TRUE]

\* ht_ATO going online without looking at the line state.
ht_ATO_unconditional(w) == h_result([w EXCEPT !.online = TRUE], "OKAY")

ht_ATO(w) ==
    IF w.on_hook \/ ~w.in_call THEN h_result(w, "NO_CARRIER")
    ELSE h_result([w EXCEPT !.online = TRUE], "OKAY")

h_ATQ(w, a) ==
    LET w1 == h_result(w, "OKAY") IN
    IF a # Ascii["0"] /\ a # Ascii["1"]
    THEN [w |-> [w1 EXCEPT !.quiet = FALSE], ok |-> FALSE]
    ELSE [w |-> [w1 EXCEPT !.quiet = (a = Ascii["1"])], ok |-> TRUE]

hz_ATQ(w) == h_result([w EXCEPT !.quiet = FALSE], "OKAY")

hz_ATS(w) == h_result(w, "ERROR")

hz_ATSDOLLAR(w) == h_result(w, "OKAY")

\* The register indices h_ATS rejects.
RegReserved(reg) ==
    \/ (reg > 13 /\ reg < 16) \/ (reg > 25 /\ reg < 38) \/ reg > 38
    \/ reg = 17 \/ reg = 20 \/ reg = 24

\* The registers that hold a character.
RegIsChar(reg) == (reg > 1 /\ reg < 6) \/ (reg > 21 /\ reg < 24)

h_ATS(w, i, ub) ==
    IF At(w, i, ub) = Ascii["$"] THEN [w |-> hz_ATSDOLLAR(w), ret |-> 1]
    ELSE IF ~h_is_num(At(w, i, ub))
         THEN [w |-> h_result(w, "ERROR"), ret |-> (CMDBUF_LEN - i) % 256]
    ELSE LET reg == h_multi_parse_num(w, i, ub) IN
         IF RegReserved(reg)
         THEN [w |-> h_result(w, "ERROR"), ret |-> (CMDBUF_LEN - i) % 256]
         ELSE LET t1 == IF reg > 9 THEN 2 ELSE 1
                  c == At(w, i + t1, ub)
                  taken == t1 + 1
              IN
              IF c = Ascii["?"]
              THEN [w |-> h_result(
                            Emit(w, RegEvent(reg, RegIsChar(reg),
                                     IF RegIsChar(reg) THEN <<w.regs[reg]>>
                                     ELSE Fmt_u(w.regs[reg]))),
                            "OKAY"),
                    ret |-> taken]
              ELSE IF c = Ascii["="]
              THEN [w |-> h_result(
                            [w EXCEPT !.regs[reg] =
                                IF RegIsChar(reg) THEN At(w, taken + i, ub)
                                ELSE h_multi_parse_num(w, (taken + i) % 256, ub)],
                            "OKAY"),
                    ret |-> taken]
              ELSE [w |-> h_result(w, "ERROR"),
                    ret |-> (CMDBUF_LEN - (i + taken)) % 256]

h_ATV(w, a) ==
    LET w1 == h_result(w, "OKAY") IN
    IF a # Ascii["0"] /\ a # Ascii["1"]
    THEN [w |-> [w1 EXCEPT !.verbose = FALSE], ok |-> FALSE]
    ELSE [w |-> [w1 EXCEPT !.verbose = (a = Ascii["1"])], ok |-> TRUE]

hz_ATX(w) == h_result(w, "ERROR")

h_ATX(w, c) ==
    IF ~h_is_num(c) THEN [w |-> w, ok |-> FALSE]
    ELSE IF c - 48 > 7 THEN [w |-> h_result(w, "ERROR"), ok |-> TRUE]
    ELSE [w |-> [w EXCEPT !.report = c - 48], ok |-> TRUE]

hz_ATV(w) == h_result([w EXCEPT !.verbose = FALSE], "OKAY")

\* system_restart(); while(true);
ht_ATZ(w) == [w EXCEPT !.sys = "restarting"]

ht_AMP_F(w, c) ==
    IF c # Ascii["0"] THEN ht_ATZ(h_result(w, "ERROR")) ELSE ht_ATZ(w)

\* `return;` leaves the value the caller adds to its cursor indeterminate.
h_cmdparse_amp(w, i, ub) ==
    IF At(w, i, ub) = Ascii["F"]
    THEN IF i + 1 = w.cmd_i
         THEN [w |-> h_result(w, "ERROR"), ret |-> ub.junk]
         ELSE [w |-> ht_AMP_F(w, At(w, i + 1, ub)), ret |-> ub.junk]
    ELSE [w |-> w, ret |-> 1]

-----------------------------------------------------------------------------
(* Command dispatcher *)

\* `i += f(++i)`: the cursor after the compound assignment, i being the
\* cursor before `++i` and ret the value f returned.
CursorAdd(i, ret, ub) == ((IF ub.lhs_first THEN i ELSE i + 1) + ret) % 256

\* `break` with the cursor on j; `return`; `if(!h(cmdbuf[++i])) i--; break`;
\* `i += h(++i); break`.
Go(x, j) == [w |-> x, i |-> j, ret |-> FALSE]
Ret(x, i) == [w |-> x, i |-> i, ret |-> TRUE]
\* `h(cmdbuf[++i]); break` without the `i--` for an argument not used.
Opt_no_rewind(r, i) == Go(r.w, i + 1)

Opt(r, i) == Go(r.w, IF r.ok THEN i + 1 ELSE i)
Skip(r, i, ub) == Go(r.w, CursorAdd(i, r.ret, ub))

\* One pass through the switch of h_cmdparse with the cursor on i:
\* [w, i, ret], i the cursor before the closing i++ and ret telling that
\* the case returned from h_cmdparse.
h_cmdparse_case(w, i, ub) ==
    LET c == At(w, i, ub)
        last == (i + 1 = w.cmd_i)
        a == At(w, i + 1, ub)
    IN
    CASE c = Ascii["A"] ->
           IF last THEN Go(hz_ATA(Log(w, "hz_ATA", i, -1)), i)
           ELSE Opt(h_ATA(Log(w, "h_ATA", i, a), a), i)
      [] c = Ascii["D"] ->
           IF last THEN Ret(hz_ATD(Log(w, "hz_ATD", i, -1)), i)
           ELSE Ret(ht_ATD(Log(w, "ht_ATD", i, a), i + 1, ub).w, i)
      [] c = Ascii["E"] ->
           IF last THEN Go(hz_ATE(Log(w, "hz_ATE", i, -1)), i)
           ELSE Opt(h_ATE(Log(w, "h_ATE", i, a), a), i)
      [] c = Ascii["H"] ->
           IF last THEN Go(htz_ATH(Log(w, "htz_ATH", i, -1)), i)
           ELSE Opt(ht_ATH(Log(w, "ht_ATH", i, a), a), i)
      [] c = Ascii["I"] ->
           IF last THEN Go(hz_ATI(Log(w, "hz_ATI", i, -1)), i)
           ELSE Go(ht_ATI(Log(w, "ht_ATI", i, a), i + 1, ub), i + 1)
      [] c \in {Ascii["L"], Ascii["M"]} ->
           IF last THEN Go(h_result(Log(w, "LM", i, -1), "ERROR"), i)
           ELSE Go(h_result(Log(w, "LM", i, a),
                            IF h_is_num(a) THEN "OKAY" ELSE "ERROR"), i + 1)
      [] c = Ascii["O"] -> Ret(ht_ATO(Log(w, "ht_ATO", i, -1)), i)
      [] c = Ascii["Q"] ->
           IF last THEN Go(hz_ATQ(Log(w, "hz_ATQ", i, -1)), i)
           ELSE Opt(h_ATQ(Log(w, "h_ATQ", i, a), a), i)
      [] c = Ascii["S"] ->
           IF last THEN Go(h_result(Log(w, "hz_ATS", i, -1), "ERROR"), i)
           ELSE Skip(h_ATS(Log(w, "h_ATS", i, a), i + 1, ub), i, ub)
      [] c = Ascii["V"] ->
           IF last THEN Go(hz_ATV(Log(w, "hz_ATV", i, -1)), i)
           ELSE Opt(h_ATV(Log(w, "h_ATV", i, a), a), i)
      [] c = Ascii["X"] ->
           IF last THEN Go(hz_ATX(Log(w, "hz_ATX", i, -1)), i)
           ELSE Opt(h_ATX(Log(w, "h_ATX", i, a), a), i)
      [] c = Ascii["Z"] -> Ret(ht_ATZ(Log(w, "ht_ATZ", i, -1)), i)
      [] c = Ascii["&"] ->
           IF last THEN Go(h_result(Log(w, "amp", i, -1), "ERROR"), i)
           ELSE Skip(h_cmdparse_amp(Log(w, "h_cmdparse_amp", i, a), i + 1, ub),
                     i, ub)
      [] c = Ascii["$"] ->
           IF i > 0 /\ At(w, i - 1, ub) = Ascii["&"]
           THEN Ret(ht_ATAMPDOLLAR(Log(w, "ht_ATAMPDOLLAR", i, -1)), i)
           ELSE Ret(ht_ATDOLLAR(Log(w, "ht_ATDOLLAR", i, -1)), i)
      [] OTHER -> Go(w, i)

\* The closing `i++` of the loop body, unless the case returned.
h_cmdparse_next(r) == IF r.ret THEN r ELSE [r EXCEPT !.i = (@ + 1) % 256]

\* One round of while(i<modem.state.cmd_i) { switch ... ; i++; } from
\* st = [w, i, ret]; ret tells that the loop has been left.
h_cmdparse_round(st, ub) ==
    IF st.ret \/ st.w.sys # "running" \/ ~(st.i < st.w.cmd_i)
    THEN [st EXCEPT !.ret = TRUE]
    ELSE h_cmdparse_next(h_cmdparse_case(st.w, st.i, ub))

\* n rounds of the loop.
RECURSIVE h_cmdparse_loop(_, _, _)
h_cmdparse_loop(st, n, ub) ==
    IF st.ret \/ n = 0 THEN st
    ELSE IF n = 1 THEN h_cmdparse_round(st, ub)
    ELSE h_cmdparse_loop(h_cmdparse_loop(st, n \div 2, ub), n - (n \div 2), ub)

\* A loop that MaxScan rounds have not ended never ends.
h_cmdparse_end(st) == IF st.ret THEN st.w ELSE [st.w EXCEPT !.sys = "hung"]

h_cmdparse(w, ub) ==
    IF w.cmd_i = 0 THEN h_result(w, "OKAY")
    ELSE h_cmdparse_end(h_cmdparse_loop(Go(w, 0), MaxScan + 1, ub))

-----------------------------------------------------------------------------
(* Command buffer assembler and mode multiplexer *)

\* The statements of h_recv that follow h_cmdparse(), p being what it left;
\* none runs when the call never returns.
\* The end of a line without `modem.state.cmd_i = 0`.
h_recv_line_end_keep(p, c) ==
    IF p.sys # "running" THEN p
    ELSE [p EXCEPT !.in_cmd = FALSE, !.l_cmd_i = p.cmd_i, !.l_chr = c]

h_recv_line_end(p, c) ==
    IF p.sys # "running" THEN p
    ELSE [p EXCEPT !.in_cmd = FALSE, !.l_cmd_i = p.cmd_i, !.cmd_i = 0, !.l_chr = c]

h_recv_replay_end(p, c) ==
    IF p.sys # "running" THEN p
    ELSE [p EXCEPT !.in_cmd = FALSE, !.cmd_i = 0, !.l_chr = c]

\* h_recv with the overflow branch only reporting ERROR.
h_recv_body_no_reset(e, c, ub) ==
    IF e.in_cmd THEN
        IF c = REG_CR(e) THEN h_recv_line_end(h_cmdparse(e, ub), c)
        ELSE IF c = REG_BS(e) /\ e.cmd_i > 0 THEN
            IF e.cmd_i - 1 > 0
            THEN [e EXCEPT !.cmd_i = @ - 1, !.l_chr = At(e, e.cmd_i - 1, ub)]
            ELSE [e EXCEPT !.cmd_i = @ - 1]
        ELSE IF e.cmd_i = CMDBUF_LEN THEN [h_result(e, "ERROR") EXCEPT !.l_chr = c]
        ELSE [e EXCEPT !.cmdbuf[e.cmd_i + 1] = c, !.cmd_i = @ + 1, !.l_chr = c]
    ELSE IF e.l_chr = Ascii["A"] THEN
        IF c = Ascii["/"] THEN
            h_recv_replay_end(
                h_cmdparse([e EXCEPT !.in_cmd = TRUE, !.cmd_i = e.l_cmd_i], ub), c)
        ELSE IF c = Ascii["T"] THEN [e EXCEPT !.in_cmd = TRUE, !.l_chr = c]
        ELSE [e EXCEPT !.l_chr = c]
    ELSE [e EXCEPT !.l_chr = c]

\* h_recv with the overflow test one too high.
h_recv_body_off_by_one(e, c, ub) ==
    IF e.in_cmd THEN
        IF c = REG_CR(e) THEN h_recv_line_end(h_cmdparse(e, ub), c)
        ELSE IF c = REG_BS(e) /\ e.cmd_i > 0 THEN
            IF e.cmd_i - 1 > 0
            THEN [e EXCEPT !.cmd_i = @ - 1, !.l_chr = At(e, e.cmd_i - 1, ub)]
            ELSE [e EXCEPT !.cmd_i = @ - 1]
        ELSE IF e.cmd_i = CMDBUF_LEN + 1 THEN
            [h_result(e, "ERROR") EXCEPT !.in_cmd = FALSE, !.l_cmd_i = 0,
                                         !.cmd_i = 0, !.l_chr = c]
        ELSE [e EXCEPT !.cmdbuf[e.cmd_i + 1] = c, !.cmd_i = @ + 1, !.l_chr = c]
    ELSE IF e.l_chr = Ascii["A"] THEN
        IF c = Ascii["/"] THEN
            h_recv_replay_end(
                h_cmdparse([e EXCEPT !.in_cmd = TRUE, !.cmd_i = e.l_cmd_i], ub), c)
        ELSE IF c = Ascii["T"] THEN [e EXCEPT !.in_cmd = TRUE, !.l_chr = c]
        ELSE [e EXCEPT !.l_chr = c]
    ELSE [e EXCEPT !.l_chr = c]

\* h_recv replaying with the current buffer length.
h_recv_body_replay_current(e, c, ub) ==
    IF e.in_cmd THEN
        IF c = REG_CR(e) THEN h_recv_line_end(h_cmdparse(e, ub), c)
        ELSE IF c = REG_BS(e) /\ e.cmd_i > 0 THEN
            IF e.cmd_i - 1 > 0
            THEN [e EXCEPT !.cmd_i = @ - 1, !.l_chr = At(e, e.cmd_i - 1, ub)]
            ELSE [e EXCEPT !.cmd_i = @ - 1]
        ELSE IF e.cmd_i = CMDBUF_LEN THEN
            [h_result(e, "ERROR") EXCEPT !.in_cmd = FALSE, !.l_cmd_i = 0,
                                         !.cmd_i = 0, !.l_chr = c]
        ELSE [e EXCEPT !.cmdbuf[e.cmd_i + 1] = c, !.cmd_i = @ + 1, !.l_chr = c]
    ELSE IF e.l_chr = Ascii["A"] THEN
        IF c = Ascii["/"] THEN
            h_recv_replay_end(h_cmdparse([e EXCEPT !.in_cmd = TRUE], ub), c)
        ELSE IF c = Ascii["T"] THEN [e EXCEPT !.in_cmd = TRUE, !.l_chr = c]
        ELSE [e EXCEPT !.l_chr = c]
    ELSE [e EXCEPT !.l_chr = c]

\* h_recv after its first statement, h_echo(c).
h_recv_body(e, c, ub) ==
    IF e.in_cmd THEN
        IF c = REG_CR(e) THEN h_recv_line_end(h_cmdparse(e, ub), c)
        ELSE IF c = REG_BS(e) /\ e.cmd_i > 0 THEN
            IF e.cmd_i - 1 > 0
            THEN [e EXCEPT !.cmd_i = @ - 1, !.l_chr = At(e, e.cmd_i - 1, ub)]
            ELSE [e EXCEPT !.cmd_i = @ - 1]
        ELSE IF e.cmd_i = CMDBUF_LEN THEN
            [h_result(e, "ERROR") EXCEPT !.in_cmd = FALSE, !.l_cmd_i = 0,
                                         !.cmd_i = 0, !.l_chr = c]
        ELSE [e EXCEPT !.cmdbuf[e.cmd_i + 1] = c, !.cmd_i = @ + 1, !.l_chr = c]
    ELSE IF e.l_chr = Ascii["A"] THEN
        IF c = Ascii["/"] THEN
            h_recv_replay_end(
                h_cmdparse([e EXCEPT !.in_cmd = TRUE, !.cmd_i = e.l_cmd_i], ub), c)
        ELSE IF c = Ascii["T"] THEN [e EXCEPT !.in_cmd = TRUE, !.l_chr = c]
        ELSE [e EXCEPT !.l_chr = c]
    ELSE [e EXCEPT !.l_chr = c]

h_recv(w, c, ub) == h_recv_body(h_echo(w, c), c, ub)

\* while(modem.state.n_escs-->0) { slip_rx(slip_if, REG_ESC); (*bytes_out)++; }
RECURSIVE h_handler_flush(_)
h_handler_flush(w) ==
    IF w.n_escs > 0
    THEN h_handler_flush([w EXCEPT !.n_escs = @ - 1,
                                   !.sunk = Append(@, REG_ESC(w))])
    ELSE [w EXCEPT !.n_escs = (@ - 1) % 256]

\* `return v;`, unless the call never returns.
h_return(r, v) == IF r.sys # "running" THEN r ELSE [r EXCEPT !.handled = v]

\* h_handler with the escape test made before the online test.
h_handler_body_esc_first(w, c, ub) ==
    IF c = REG_ESC(w) THEN
        IF w.in_esc /\ w.n_escs = 2
        THEN [h_result([w EXCEPT !.in_esc = FALSE, !.n_escs = 0,
                                 !.online = FALSE], "OKAY")
                EXCEPT !.handled = TRUE]
        ELSE [w EXCEPT !.in_esc = TRUE, !.n_escs = (@ + 1) % 256,
                       !.handled = TRUE]
    ELSE IF ~w.online THEN h_return(h_recv(w, c, ub), TRUE)
    ELSE IF w.in_esc
         THEN [h_handler_flush([w EXCEPT !.in_esc = FALSE]) EXCEPT !.handled = FALSE]
         ELSE [w EXCEPT !.handled = FALSE]

\* h_handler hanging up when the escape sequence is complete.
h_handler_body_hangup(w, c, ub) ==
    IF ~w.online THEN h_return(h_recv(w, c, ub), TRUE)
    ELSE IF c = REG_ESC(w) THEN
        IF w.in_esc /\ w.n_escs = 2
        THEN [h_result([w EXCEPT !.in_esc = FALSE, !.n_escs = 0,
                                 !.online = FALSE, !.in_call = FALSE], "OKAY")
                EXCEPT !.handled = TRUE]
        ELSE [w EXCEPT !.in_esc = TRUE, !.n_escs = (@ + 1) % 256,
                       !.handled = TRUE]
    ELSE IF w.in_esc
         THEN [h_handler_flush([w EXCEPT !.in_esc = FALSE]) EXCEPT !.handled = FALSE]
         ELSE [w EXCEPT !.handled = FALSE]

\* The body of h_handler: w as it is when the call returns.
h_handler_body(w, c, ub) ==
    IF ~w.online THEN h_return(h_recv(w, c, ub), TRUE)
    ELSE IF c = REG_ESC(w) THEN
        IF w.in_esc /\ w.n_escs = 2
        THEN [h_result([w EXCEPT !.in_esc = FALSE, !.n_escs = 0,
                                 !.online = FALSE], "OKAY")
                EXCEPT !.handled = TRUE]
        ELSE [w EXCEPT !.in_esc = TRUE, !.n_escs = (@ + 1) % 256,
                       !.handled = TRUE]
    ELSE IF w.in_esc
         THEN [h_handler_flush([w EXCEPT !.in_esc = FALSE]) EXCEPT !.handled = FALSE]
         ELSE [w EXCEPT !.handled = FALSE]

-----------------------------------------------------------------------------
(* The state machine *)

ModemFields ==
    {"on_hook", "in_call", "online", "in_cmd", "cmdbuf", "cmd_i", "l_cmd_i",
     "l_chr", "in_esc", "n_escs", "echo", "quiet", "verbose", "report", "regs"}

\* The record a call works on, as the call is entered.
Enter(m) ==
    m @@ [out |-> <<>>, log |-> <<>>, sunk |-> <<>>, handled |-> FALSE,
          sys |-> "running"]

\* h_init: modem as it is after construction; cmd_mode is HAYES_CMD_MODE_AT_BOOT.
h_init(cmd_mode) ==
    [on_hook |-> cmd_mode, in_call |-> ~cmd_mode, online |-> ~cmd_mode,
     in_cmd |-> FALSE, cmdbuf |-> [k \in 1 .. CMDBUF_LEN |-> 0],
     cmd_i |-> 0, l_cmd_i |-> 0, l_chr |-> 0, in_esc |-> FALSE, n_escs |-> 0,
     echo |-> TRUE, quiet |-> FALSE, verbose |-> TRUE, report |-> 7,
     regs |-> [r \in RegIndex |->
                 CASE r = 2 -> ESC_CHR [] r = 3 -> CR [] r = 4 -> LF
                   [] r = 5 -> BS [] r = 22 -> DC1 [] r = 23 -> DC3
                   [] r = 6 -> 2 [] r = 7 -> 60 [] r = 8 -> 2 [] r = 9 -> 6
                   [] r = 10 -> 7 [] r = 11 -> 70 [] r = 12 -> 50
                   [] r = 21 -> 10 [] r = 25 -> 5 [] OTHER -> 0]]

\* The bytes the environment may deliver next.
Allowed(c) ==
    IF pc <= Len(script) THEN c = script[pc]
    ELSE /\ c \in inputs
         /\ (~modem.online /\ modem.in_cmd /\ modem.cmd_i >= MaxLine)
               => (c = REG_CR(modem) \/ c = REG_BS(modem))

\* Escape characters received in a row after the call.
StreakAfter(c) ==
    IF modem.online /\ c = REG_ESC(modem)
    THEN (IF modem.in_esc THEN streak + 1 ELSE 1)
    ELSE 0

\* The line most recently terminated, after the call.
EnteredAfter(c) ==
    IF modem.online \/ ~modem.in_cmd THEN entered
    ELSE IF c = REG_CR(modem)
         THEN [line |-> SubSeq(modem.cmdbuf, 1, modem.cmd_i), overflowed |-> FALSE]
    ELSE IF c = REG_BS(modem) /\ modem.cmd_i > 0 THEN entered
    ELSE IF modem.cmd_i = CMDBUF_LEN THEN [entered EXCEPT !.overflowed = TRUE]
    ELSE entered

InitWith(scripts, alphabet) ==
    /\ \E cmd_mode \in BOOLEAN : modem = h_init(cmd_mode)
    /\ sys = "running"
    /\ out = <<>> /\ log = <<>> /\ sunk = <<>>
    /\ bytes_out = 0
    /\ handled = FALSE
    /\ chr = 0
    /\ streak = 0
    /\ entered = [line |-> <<>>, overflowed |-> FALSE]
    /\ script \in scripts
    /\ pc = 1
    /\ inputs = alphabet

\* The state a call leaves behind, w being the record it worked on.
Leave(w) ==
    /\ bytes_out + Len(w.sunk) <= MaxBytes
    /\ modem' = [f \in ModemFields |-> w[f]]
    /\ sys' = w.sys
    /\ out' = w.out
    /\ log' = w.log
    /\ sunk' = w.sunk
    /\ bytes_out' = bytes_out + Len(w.sunk)
    /\ handled' = w.handled

\* One call of h_handler with the byte c.
h_handler(c) ==
    /\ sys = "running"
    /\ Allowed(c)
    /\ \E ub \in UB : Leave(h_handler_body(Enter(modem), c, ub))
    /\ chr' = c
    /\ streak' = StreakAfter(c)
    /\ entered' = EnteredAfter(c)
    /\ pc' = IF pc <= Len(script) THEN pc + 1 ELSE pc
    /\ UNCHANGED <<script, inputs>>

Next == \E c \in 0 .. 255 : h_handler(c)

\* The bytes of a string, as a set.
Bytes(s) == {Ascii[s[k]] : k \in DOMAIN s}

\* The command line that is being assembled.
Line(m) == SubSeq(m.cmdbuf, 1, m.cmd_i)

\* The preferences other than the registers.
Prefs(m) == <<m.echo, m.quiet, m.verbose, m.report>>

-----------------------------------------------------------------------------
(* Mode and escape handling: free input over a small alphabet, from boot   *)
(* or after the escape character has been set to `x` (S2).                 *)

Init ==
    InitWith({<<>>,
              Str(<<"A", "T", "S", "2", "=", "x", "CR">>),
              Str(<<"A", "T", "Z", "CR">>),
              Str(<<"+", "+", "+", "A", "T", "O", "CR">>)},
             Bytes(<<"+", "x", "A", "T", "CR">>))

Spec == Init /\ [][Next]_vars

\* C1: while online with no partial escape sequence outstanding, three
\* escape characters (register 2) in a row are all reported handled, none
\* reaches the payload sink, and the third sets online to false, clears
\* in_escape and escape_count and emits OK unless quiet is on.
C1_ThreeEscapesExit ==
    [][(modem.online /\ chr' = REG_ESC(modem) /\ streak' \in 1 .. 3)
         => /\ handled'
            /\ sunk' = <<>>
            /\ streak' = 3 =>
                 /\ ~modem'.online
                 /\ ~modem'.in_esc
                 /\ modem'.n_escs = 0
                 /\ ~modem.quiet => ResultNames(out') = <<"OKAY">>]_vars

\* C2: while online, a byte other than the escape character that follows
\* k = 1 or 2 withheld escape characters passes exactly k escape characters
\* to the payload sink, adds k to the forwarded-byte counter, is reported
\* not handled and leaves the session online.
C2_AbandonFlushesAll ==
    [][(modem.online /\ modem.in_esc /\ streak \in 1 .. 2
          /\ chr' # REG_ESC(modem))
         => /\ sunk' = [k \in 1 .. streak |-> REG_ESC(modem)]
            /\ bytes_out' = bytes_out + streak
            /\ ~handled'
            /\ modem'.online]_vars

\* C3: a byte received while offline goes to the command path (it is echoed
\* under the echo rule), the call reports handled when it returns, nothing
\* is passed to the payload sink, and the forwarded-byte counter and the
\* escape tracking stay as they were.
C3_OfflineToCommandPath ==
    [][~modem.online
         => /\ (modem.echo /\ ~(chr' = REG_LF(modem) /\ modem.l_chr = REG_CR(modem)))
                 => (out' # <<>> /\ out'[1] = EchoEvent(chr'))
            /\ sys' = "running" => handled'
            /\ sunk' = <<>>
            /\ bytes_out' = bytes_out
            /\ modem'.in_esc = modem.in_esc
            /\ modem'.n_escs = modem.n_escs]_vars

\* An offline call after payload has been forwarded: the second character of
\* a command line has just been stored.
C3_Witness ==
    /\ ~modem.online /\ modem.in_cmd /\ modem.cmd_i = 2
    /\ handled /\ sunk = <<>> /\ bytes_out > 0
    /\ out = <<EchoEvent(chr)>>

-----------------------------------------------------------------------------
(* Line assembly: command lines of full length, then free input.           *)

\* n filler characters, which are no command.
Fill(n) == [k \in 1 .. n |-> Ascii["x"]]

LineScripts ==
    {<<>>,
     Str(<<"A", "T">>) \o Fill(CMDBUF_LEN),
     Str(<<"A", "T">>) \o Fill(CMDBUF_LEN + 1),
     Str(<<"A", "T">>) \o Fill(CMDBUF_LEN) \o Str(<<"CR">>),
     Str(<<"A", "T", "E", "0">>) \o Fill(CMDBUF_LEN - 2) \o Str(<<"A">>),
     Str(<<"A", "T", "Q", "1", "CR", "A", "T">>) \o Fill(CMDBUF_LEN + 1)}

InitLine == InitWith(LineScripts, Bytes(<<"A", "T", "/", "BS", "CR">>))

SpecLine == InitLine /\ [][Next]_vars

\* C4: in command-entry mode with 40 characters stored, a further character
\* other than carriage return and backspace emits ERROR (quiet off), is not
\* stored, sets buffer_length to 0 and leaves command-entry mode without any
\* command being dispatched; and `T` after `A` outside command-entry mode
\* starts an empty line.
C4_OverflowResets ==
    [][/\ (~modem.online /\ modem.in_cmd /\ modem.cmd_i = CMDBUF_LEN
             /\ chr' # REG_CR(modem) /\ chr' # REG_BS(modem))
          => /\ ResultNames(out') = IF modem.quiet THEN <<>> ELSE <<"ERROR">>
             /\ modem'.cmdbuf = modem.cmdbuf
             /\ modem'.cmd_i = 0
             /\ ~modem'.in_cmd
             /\ log' = <<>>
             /\ Prefs(modem') = Prefs(modem) /\ modem'.regs = modem.regs
             /\ <<modem'.on_hook, modem'.in_call, modem'.online>>
                  = <<modem.on_hook, modem.in_call, modem.online>>
       /\ (~modem.online /\ ~modem.in_cmd /\ modem.l_chr = Ascii["A"]
             /\ chr' = Ascii["T"])
          => (modem'.in_cmd /\ modem'.cmd_i = 0 /\ Line(modem') = <<>>)]_vars

\* The 41st character has just been refused: ERROR with nothing dispatched,
\* the 40 characters of the line still in the buffer.
C4_Witness ==
    /\ ResultNames(out) = <<"ERROR">> /\ log = <<>>
    /\ ~modem.online /\ ~modem.in_cmd /\ modem.cmd_i = 0 /\ modem.l_cmd_i = 0
    /\ modem.cmdbuf[CMDBUF_LEN] = Ascii["x"]
    /\ modem.echo

\* C5: buffer_length (cmd_i) and previous_buffer_length (l_cmd_i) are always
\* between 0 and 40, and the command buffer keeps its 40 places.
C5_BufferBounds ==
    /\ modem.cmd_i \in 0 .. CMDBUF_LEN
    /\ modem.l_cmd_i \in 0 .. CMDBUF_LEN
    /\ DOMAIN modem.cmdbuf = 1 .. CMDBUF_LEN

\* A line of 40 characters has been terminated and then replayed with `A/`.
C5_Witness ==
    /\ modem.l_cmd_i = CMDBUF_LEN /\ modem.cmd_i = 0 /\ ~modem.in_cmd
    /\ chr = Ascii["/"] /\ modem.l_chr = Ascii["/"]
    /\ modem.cmdbuf[CMDBUF_LEN] = Ascii["x"]

-----------------------------------------------------------------------------
(* Dialling.                                                               *)

DialScripts ==
    {<<>>,
     Str(<<"A", "T", "D", ";", "CR">>),
     Str(<<"A", "T", "D", "T", "5", "5", "5", "1", "2", "3", "4", "CR">>),
     Str(<<"A", "T", "D", "5", "5", "5", ";", "CR">>)}

InitDial == InitWith(DialScripts, Bytes(<<"A", "T", "D", "5", ";", "CR">>))

SpecDial == InitDial /\ [][Next]_vars

\* The characters a dial string is made of.
DialAlphabet ==
    {c \in 0 .. 255 : h_is_num(c)}
        \cup Bytes(<<",", "@", ".", "W", "#", "!", "$", "&", ";", "*", "\"">>)

\* line is D, an optional T, P or R, and a non-empty dial string.
IsDialLine(line) ==
    /\ Len(line) >= 2
    /\ line[1] = Ascii["D"]
    /\ \E k \in {2, 3} :
         /\ k = 3 => line[2] \in Bytes(<<"T", "P", "R">>)
         /\ Len(line) >= k
         /\ \A j \in k .. Len(line) : line[j] \in DialAlphabet

\* C6: a D command with a dial string, dispatched while offline, leaves
\* on_hook=false and in_call=true, and online=false exactly when the dial
\* string contains `;`.
C6_DialSetsCallState ==
    [][(~modem.online /\ modem.in_cmd /\ chr' = REG_CR(modem)
          /\ IsDialLine(Line(modem)))
       => /\ ~modem'.on_hook
          /\ modem'.in_call
          /\ modem'.online = (\A j \in 1 .. modem.cmd_i :
                                 modem.cmdbuf[j] # Ascii[";"])]_vars

-----------------------------------------------------------------------------
(* Quiet mode.                                                             *)

QuietScripts ==
    {<<>>,
     Str(<<"A", "T", "Q", "1", "CR", "A", "T">>) \o Fill(CMDBUF_LEN + 1),
     Str(<<"A", "T", "Q", "1", "CR", "A", "T", "Q", "0", "CR", "A", "T", "CR">>),
     Str(<<"+", "+", "+", "A", "T", "Q", "1", "CR", "A", "T", "O", "CR",
           "+", "+", "+">>)}

InitQuiet == InitWith(QuietScripts, Bytes(<<"A", "T", "Q", "1", "CR">>))

SpecQuiet == InitQuiet /\ [][Next]_vars

\* A dispatched command `Q0`.
IsQ0(e) == e.h = "h_ATQ" /\ e.a = Ascii["0"]

\* A dispatched command that switches quiet off: a bare Q, or Q with any
\* argument other than `1`.
IsQuietOff(e) == e.h = "hz_ATQ" \/ (e.h = "h_ATQ" /\ e.a # Ascii["1"])

\* C7: the line `Q1` switches quiet on, and while quiet is on a byte produces
\* no result output unless it dispatches a Q0 command.
C7_QuietUntilQ0 ==
    [][/\ (~modem.online /\ modem.in_cmd /\ chr' = REG_CR(modem)
             /\ Line(modem) = Str(<<"Q", "1">>) /\ sys' = "running")
          => modem'.quiet
       /\ (modem.quiet /\ \A k \in DOMAIN log' : ~IsQ0(log'[k]))
          => Results(out') = <<>>]_vars

\* C7 (amended): the line `Q1` switches quiet on, and while quiet is on a
\* byte produces no result output unless it dispatches a Q command whose
\* argument is not `1` (Q0, a bare Q, or Q followed by any other character).
C7_QuietUntilQuietOff ==
    [][/\ (~modem.online /\ modem.in_cmd /\ chr' = REG_CR(modem)
             /\ Line(modem) = Str(<<"Q", "1">>) /\ sys' = "running")
          => modem'.quiet
       /\ (modem.quiet /\ \A k \in DOMAIN log' : ~IsQuietOff(log'[k]))
          => Results(out') = <<>>]_vars

\* Quiet is on and the third escape character has just ended the data
\* session: its OK is not emitted.
C7_Witness ==
    /\ modem.quiet /\ ~modem.online
    /\ chr = REG_ESC(modem) /\ streak = 3 /\ handled
    /\ out = <<>>

-----------------------------------------------------------------------------
(* Echo.                                                                   *)

\* The line `ATE1` followed by one byte of any value.
EchoScripts == {Str(<<"A", "T", "E", "1", "CR">>) \o <<c>> : c \in 0 .. 255}

InitEcho ==
    \/ InitWith({<<>>, Str(<<"A", "T", "E", "0", "CR">>)},
                Bytes(<<"A", "T", "E", "1", "CR", "LF">>))
    \/ InitWith(EchoScripts, {})

SpecEcho == InitEcho /\ [][Next]_vars

\* The line `E1` has just been dispatched, offline and outside a call.
E1Dispatched ==
    /\ ~modem.online /\ ~modem.in_call /\ ~modem.in_cmd
    /\ modem.l_cmd_i = 2
    /\ SubSeq(modem.cmdbuf, 1, 2) = Str(<<"E", "1">>)
    /\ log = <<[h |-> "h_ATE", i |-> 0, a |-> Ascii["1"]]>>

\* C8: offline and outside a call, the byte received next after the line
\* `E1` was dispatched is echoed, whatever its value.
C8_EchoAfterE1 ==
    [][E1Dispatched => (out' # <<>> /\ out'[1] = EchoEvent(chr'))]_vars

\* C8 (amended): offline and outside a call, the byte received next after the
\* line `E1` was dispatched is echoed, unless it is the line-feed character
\* (register 4).
C8_EchoAfterE1ExceptLF ==
    [][(E1Dispatched /\ chr' # REG_LF(modem))
       => (out' # <<>> /\ out'[1] = EchoEvent(chr'))]_vars

\* The byte 0 was received right after the line `E1` and has been echoed.
C8_Witness ==
    /\ chr = Ascii["NUL"] /\ out = <<EchoEvent(Ascii["NUL"])>>
    /\ script \in EchoScripts /\ pc = Len(script) + 1
    /\ modem.echo /\ ~modem.online /\ ~modem.in_call /\ ~modem.in_cmd
    /\ modem.l_cmd_i = 2 /\ modem.l_chr = Ascii["NUL"]

-----------------------------------------------------------------------------
(* Registers: the line `ATSn=v` followed by the line `ATSn?`.              *)

\* The number a string of decimal digits denotes.
RECURSIVE DecVal(_)
DecVal(ds) ==
    IF ds = <<>> THEN 0
    ELSE 10 * DecVal(SubSeq(ds, 1, Len(ds) - 1)) + (ds[Len(ds)] - 48)

\* The values 0..255 written with one to three decimal digits.
ValueStrings ==
    {ds \in UNION {[1 .. k -> 48 .. 57] : k \in 1 .. 3} : DecVal(ds) <= 255}

\* The implemented registers that hold an integer.
IntRegs == {0, 1} \cup (6 .. 13) \cup {16, 18, 19, 21, 25, 38}

RegScript(n, ds) ==
    Str(<<"A", "T", "S">>) \o Fmt_u(n) \o Str(<<"=">>) \o ds \o Str(<<"CR">>)
        \o Str(<<"A", "T", "S">>) \o Fmt_u(n) \o Str(<<"?", "CR">>)

IntRegScripts == {RegScript(n, ds) : n \in IntRegs, ds \in ValueStrings}

CharRegScripts ==
    {RegScript(n, ds) : n \in {2, 22}, ds \in {Str(<<"6", "5">>), Str(<<"4", "3">>)}}

InitReg == InitWith(IntRegScripts \cup CharRegScripts, {})

SpecReg == InitReg /\ [][Next]_vars

\* The parts of the script: the place of `=`, the register and the value.
ScriptEq == IF script[5] = Ascii["="] THEN 5 ELSE 6
ScriptReg == DecVal(SubSeq(script, 4, ScriptEq - 1))
ScriptDigits == SubSeq(script, ScriptEq + 1, Len(script) - ScriptEq - 2)
ScriptValue == DecVal(ScriptDigits)

\* C9: `ATSn=v` then `ATSn?` on a character register reports the character
\* whose code is v, and on an integer register reports the integer v.
C9_WriteThenRead ==
    (script \in IntRegScripts \cup CharRegScripts
       /\ pc > Len(script) /\ ~modem.online)
    => \E k \in DOMAIN out :
          out[k] = IF ScriptReg \in {2, 22}
                   THEN RegEvent(ScriptReg, TRUE, <<ScriptValue>>)
                   ELSE RegEvent(ScriptReg, FALSE, Fmt_u(ScriptValue))

\* C10: for an implemented integer register n and a value v of 0..255 written
\* with 1 to 3 digits, the line `ATSn=v` sets register n to v and changes no
\* other register and no preference, and the following line `ATSn?` reports
\* exactly v.
C10_RoundTrip ==
    (script \in IntRegScripts /\ ~modem.online)
    => /\ (pc > ScriptEq + Len(ScriptDigits) + 1)
          => /\ modem.regs = [h_init(TRUE).regs EXCEPT ![ScriptReg] = ScriptValue]
             /\ Prefs(modem) = Prefs(h_init(TRUE))
       /\ (pc > Len(script))
          => /\ Len(out) = 3
             /\ out[2] = RegEvent(ScriptReg, FALSE, Fmt_u(ScriptValue))
             /\ ResultNames(out) = <<"OKAY">>

\* `ATS38=255` then `ATS38?` has reported 255.
C10_Witness ==
    /\ script = RegScript(38, Str(<<"2", "5", "5">>))
    /\ pc > Len(script) /\ ~modem.online
    /\ modem.regs[38] = 255
    /\ out[2] = RegEvent(38, FALSE, Str(<<"2", "5", "5">>))

-----------------------------------------------------------------------------
(* Returning online: the O command.                                        *)

OnlineScripts ==
    {<<>>,
     Str(<<"+", "+", "+">>),
     Str(<<"+", "+", "+", "A", "T", "H", "0", "CR">>),
     Str(<<"+", "+", "+", "A", "T", "H", "0", "CR", "A", "T", "O", "E", "CR">>),
     Str(<<"+", "+", "+", "A", "T", "O", "E", "0", "CR">>),
     Str(<<"A", "T", "Q", "1", "CR", "A", "T", "O", "CR">>)}

InitOnline == InitWith(OnlineScripts, Bytes(<<"A", "T", "O", "H", "CR">>))

SpecOnline == InitOnline /\ [][Next]_vars

\* The call and line state, the preferences, the registers and the buffer.
Settings(m) ==
    <<m.on_hook, m.in_call, m.in_esc, m.n_escs, Prefs(m), m.regs, m.cmdbuf>>

\* C11: a line starting with O dispatches O and nothing else; with the line
\* on-hook or no call in progress it emits NO_CARRIER (quiet off) and changes
\* no modem state, otherwise it sets online and emits OK; and wherever O
\* stands on a line, nothing after it is dispatched.
C11_ReturnOnline ==
    [][/\ (~modem.online /\ modem.in_cmd /\ chr' = REG_CR(modem)
             /\ modem.cmd_i > 0 /\ modem.cmdbuf[1] = Ascii["O"])
          => /\ log' = <<[h |-> "ht_ATO", i |-> 0, a |-> -1]>>
             /\ Settings(modem') = Settings(modem)
             /\ modem'.online = (~modem.on_hook /\ modem.in_call)
             /\ ResultNames(out') =
                  IF modem.quiet THEN <<>>
                  ELSE IF modem.on_hook \/ ~modem.in_call
                       THEN <<"NO_CARRIER">> ELSE <<"OKAY">>
       /\ \A k \in DOMAIN log' : log'[k].h = "ht_ATO" => k = Len(log')]_vars

\* The line `OE` was dispatched in a call that is on-hook: NO_CARRIER, and the
\* E after O did not switch echo off.
C11_Witness ==
    /\ log = <<[h |-> "ht_ATO", i |-> 0, a |-> -1]>>
    /\ ResultNames(out) = <<"NO_CARRIER">>
    /\ modem.on_hook /\ modem.in_call /\ ~modem.online
    /\ modem.l_cmd_i = 2 /\ modem.cmdbuf[2] = Ascii["E"] /\ modem.echo

-----------------------------------------------------------------------------
(* Replaying the last line: `A/`.                                          *)

ReplayScripts ==
    {<<>>,
     Str(<<"A", "T", "E", "CR", "A", "T">>) \o Fill(CMDBUF_LEN + 1),
     Str(<<"A", "T", "E", "0", "Q", "1", "CR", "A", "/", "A", "/">>)}

InitReplay == InitWith(ReplayScripts, Bytes(<<"A", "T", "/", "E", "CR">>))

SpecReplay == InitReplay /\ [][Next]_vars

IsNoEcho(e) == e.k # "echo"

\* h_cmdparse on the line `line`, in the state the modem is in.
DispatchOf(line, ub) ==
    h_cmdparse(
        [Enter(modem) EXCEPT
            !.in_cmd = TRUE,
            !.cmd_i = Len(line),
            !.cmdbuf = [k \in 1 .. CMDBUF_LEN |->
                          IF k <= Len(line) THEN line[k] ELSE modem.cmdbuf[k]]],
        ub)

\* The call has done what the dispatch p does, and nothing more.
SameDispatch(p) ==
    /\ log' = p.log
    /\ SelectSeq(out', IsNoEcho) = p.out
    /\ sys' = p.sys
    /\ <<modem'.on_hook, modem'.in_call, modem'.online, Prefs(modem'), modem'.regs>>
         = <<p.on_hook, p.in_call, p.online, Prefs(p), p.regs>>

\* `/` is received right after `A`, offline and outside command entry.
ReplayStep ==
    ~modem.online /\ ~modem.in_cmd /\ modem.l_chr = Ascii["A"] /\ chr' = Ascii["/"]

\* C12: offline and outside command entry, `/` right after `A` dispatches
\* once the command line most recently terminated, and leaves command entry
\* off with buffer_length 0.
C12_ReplayLastLine ==
    [][ReplayStep
       => /\ \E ub \in UB : SameDispatch(DispatchOf(entered.line, ub))
          /\ sys' = "running" => (~modem'.in_cmd /\ modem'.cmd_i = 0)]_vars

\* C12 (amended): offline and outside command entry, `/` right after `A`
\* dispatches once the command line most recently terminated if the buffer
\* has not overflowed since, and the empty line if it has; it leaves command
\* entry off with buffer_length 0.
C12_ReplayLastLineUnlessOverflow ==
    [][ReplayStep
       => /\ \E ub \in UB :
               SameDispatch(DispatchOf(IF entered.overflowed THEN <<>>
                                       ELSE entered.line, ub))
          /\ sys' = "running" => (~modem'.in_cmd /\ modem'.cmd_i = 0)]_vars

\* The line `E0Q1` has been replayed a second time: both commands were
\* dispatched again, without output since quiet is on.
C12_Witness ==
    /\ chr = Ascii["/"] /\ pc > Len(script) /\ Len(script) = 11
    /\ entered = [line |-> Str(<<"E", "0", "Q", "1">>), overflowed |-> FALSE]
    /\ log = <<[h |-> "h_ATE", i |-> 0, a |-> Ascii["0"]],
               [h |-> "h_ATQ", i |-> 2, a |-> Ascii["1"]]>>
    /\ out = <<>>
    /\ ~modem.in_cmd /\ modem.cmd_i = 0 /\ modem.l_cmd_i = 4

-----------------------------------------------------------------------------
(* The ampersand commands.                                                 *)

AmpScripts ==
    {<<>>,
     Str(<<"A", "T", "&", "F", "0", "E", "0", "CR">>),
     Str(<<"A", "T", "&", "F", "1", "CR">>),
     Str(<<"A", "T", "&", "x", "E", "0", "CR">>)}

InitAmp == InitWith(AmpScripts, Bytes(<<"A", "T", "&", "F", "CR">>))

SpecAmp == InitAmp /\ [][Next]_vars

\* C13: a dispatched `&F`, with or without a character after it, restarts the
\* system and is the last command dispatched; `&` followed by any other
\* character changes no modem state.
C13_AmpFResets ==
    [][\A k \in DOMAIN log' :
          log'[k].h = "h_cmdparse_amp"
          => IF log'[k].a = Ascii["F"]
             THEN sys' = "restarting" /\ k = Len(log')
             ELSE Len(log') = 1
                  => (sys' = "running" /\ Settings(modem') = Settings(modem)
                      /\ modem'.online = modem.online)]_vars

-----------------------------------------------------------------------------
(* S commands in error, at every place of lines of every length.           *)

\* S commands that name a reserved register, or follow a valid register
\* with a character other than `?` and `=`.
SErrBodies ==
    {Str(<<"S", "1", "4", "?">>), Str(<<"S", "3", "9", "=", "5">>),
     Str(<<"S", "6", "x">>), Str(<<"S", "1", "0", "x">>)}

\* m commands E, each of which switches echo off when dispatched.
Es(m) == [k \in 1 .. m |-> Ascii["E"]]

\* The lines made of fillers, one S command in error, and E commands.
SErrLines ==
    {Fill(k) \o b \o Es(m) :
        b \in SErrBodies, k \in 0 .. CMDBUF_LEN, m \in 0 .. CMDBUF_LEN}

SErrScripts ==
    {Str(<<"A", "T">>) \o l \o Str(<<"CR">>) :
        l \in {x \in SErrLines : Len(x) <= CMDBUF_LEN}}

InitSErr == InitWith(SErrScripts, {})

SpecSErr == InitSErr /\ [][Next]_vars

\* C14: when a line whose first command is an S command in error is
\* dispatched, the S command is the only command dispatched, ERROR is emitted
\* and no state changes, whatever the length of the line and the place of
\* the S command.
C14_SErrorAborts ==
    [][(~modem.online /\ modem.in_cmd /\ chr' = REG_CR(modem)
          /\ Line(modem) \in SErrLines)
       => /\ sys' = "running"
          /\ Len(log') = 1 /\ log'[1].h = "h_ATS"
          /\ ResultNames(out') = <<"ERROR">>
          /\ Settings(modem') = Settings(modem)]_vars

-----------------------------------------------------------------------------
(* Termination of the dispatcher.                                          *)

ScanBodies ==
    {Str(<<"S">>), Str(<<"S", "6">>), Str(<<"S", "6", "?">>),
     Str(<<"S", "1", "0">>), Str(<<"E">>), Str(<<"D">>)}

\* A command at every place of lines of every length up to 40.
ScanScripts ==
    {Str(<<"A", "T">>) \o l \o Str(<<"CR">>) :
        l \in {x \in {Fill(k) \o b : b \in ScanBodies, k \in 0 .. CMDBUF_LEN} :
                 Len(x) <= CMDBUF_LEN}}

InitScan == InitWith(ScanScripts, {})

SpecScan == InitScan /\ [][Next]_vars

\* C15: every call of h_cmdparse returns or reaches the restart: the scan
\* loop is never entered without end.
C15_DispatchTerminates == sys \in {"running", "restarting"}

-----------------------------------------------------------------------------
(* Commands with an optional argument: A, E, H, Q, V, X.                   *)

OptScripts ==
    {<<>>,
     Str(<<"A", "T", "E", "Q", "1", "CR">>),
     Str(<<"A", "T", "A", "E", "CR">>),
     Str(<<"A", "T", "H", "E", "CR">>),
     Str(<<"A", "T", "V", "E", "CR">>),
     Str(<<"A", "T", "X", "E", "CR">>),
     Str(<<"A", "T", "Q", "1", "CR", "A", "T", "Q", "E", "CR">>)}

InitOpt == InitWith(OptScripts, Bytes(<<"A", "T", "E", "Q", "CR">>))

SpecOpt == InitOpt /\ [][Next]_vars

\* The handlers of a command letter followed by a character.
OptHandlers == {"h_ATA", "h_ATE", "ht_ATH", "h_ATQ", "h_ATV", "h_ATX"}

\* The characters a command accepts as its argument.
InDomain(h, a) ==
    IF h = "h_ATA" THEN a = Ascii["0"]
    ELSE IF h = "h_ATX" THEN a \in Ascii["0"] .. Ascii["7"]
    ELSE a \in {Ascii["0"], Ascii["1"]}

\* The characters that start a command.
CommandLetters ==
    Bytes(<<"A", "D", "E", "H", "I", "L", "M", "O", "Q", "S", "V", "X", "Z",
            "&", "$">>)

\* entry k of the dispatch log lg is a command followed by a command letter
\* that is not in its argument domain.
IsRescan(lg, k) ==
    /\ lg[k].h \in OptHandlers
    /\ ~InDomain(lg[k].h, lg[k].a)
    /\ lg[k].a \in CommandLetters

C17_BadArgumentIsError ==
    [][(~modem.quiet /\ log' # <<>>
          /\ log'[1].h \in OptHandlers /\ ~InDomain(log'[1].h, log'[1].a))
       => (ResultNames(out') # <<>> /\ ResultNames(out')[1] = "ERROR")]_vars

-----------------------------------------------------------------------------
(* Backspace and the bookkeeping of the line.                              *)

\* C18: in command entry a backspace takes one character off a line that is
\* not empty and does nothing to an empty line: buffer_length stays 0 and the
\* buffer is unchanged; the line is not dispatched and command entry goes on.
C18_Backspace ==
    [][(~modem.online /\ modem.in_cmd /\ chr' = REG_BS(modem))
       => /\ modem'.in_cmd /\ log' = <<>>
          /\ modem'.cmd_i = IF modem.cmd_i > 0 THEN modem.cmd_i - 1 ELSE 0
          /\ modem.cmd_i = 0 => modem'.cmdbuf = modem.cmdbuf]_vars


\* C19: outside command entry buffer_length is 0, so `AT` starts an empty
\* line; and a carriage return in command entry dispatches the line once,
\* records its length as the previous length, sets buffer_length to 0 and
\* leaves command entry.
C19_LineBookkeeping ==
    /\ [](~modem.in_cmd => modem.cmd_i = 0)
    /\ [][/\ (~modem.online /\ ~modem.in_cmd /\ modem.l_chr = Ascii["A"]
                /\ chr' = Ascii["T"])
             => (modem'.in_cmd /\ modem'.cmd_i = 0)
          /\ (~modem.online /\ modem.in_cmd /\ chr' = REG_CR(modem)
                /\ sys' = "running")
             => /\ \E ub \in UB : SameDispatch(DispatchOf(Line(modem), ub))
                /\ modem'.l_cmd_i = modem.cmd_i
                /\ modem'.cmd_i = 0
                /\ ~modem'.in_cmd]_vars

\* A line of 40 characters has just been terminated.
C19_Witness ==
    /\ chr = REG_CR(modem) /\ ~modem.in_cmd /\ ~modem.online
    /\ modem.cmd_i = 0 /\ modem.l_cmd_i = CMDBUF_LEN
    /\ entered = [line |-> Fill(CMDBUF_LEN), overflowed |-> FALSE]
    /\ log = <<>> /\ Results(out) = <<>>

-----------------------------------------------------------------------------
(* The escape sequence keeps the call.                                     *)

\* Everything the escape sequence leaves alone.
CallAndLine(m) ==
    <<m.on_hook, m.in_call, Prefs(m), m.regs, m.cmdbuf,
      m.in_cmd, m.cmd_i, m.l_cmd_i, m.l_chr>>

\* C20: the byte that completes the escape sequence changes only online,
\* in_esc and n_escs; the call is up whenever the modem is online and bytes
\* that dispatch nothing leave it up, so the line `O` that follows sets
\* online again and reports OK.
C20_EscapeKeepsCall ==
    /\ [](modem.online => (~modem.on_hook /\ modem.in_call))
    /\ [][/\ (modem.online /\ ~modem'.online)
             => /\ chr' = REG_ESC(modem) /\ modem.in_esc /\ modem.n_escs = 2
                /\ ~modem'.in_esc /\ modem'.n_escs = 0
                /\ CallAndLine(modem') = CallAndLine(modem)
                /\ sunk' = <<>> /\ handled'
                /\ ResultNames(out') = IF modem.quiet THEN <<>> ELSE <<"OKAY">>
          /\ (~modem.online /\ log' = <<>>)
             => <<modem'.on_hook, modem'.in_call>> = <<modem.on_hook, modem.in_call>>
          /\ (~modem.online /\ ~modem.on_hook /\ modem.in_call /\ modem.in_cmd
                /\ chr' = REG_CR(modem) /\ Line(modem) = Str(<<"O">>))
             => /\ modem'.online
                /\ ResultNames(out') = IF modem.quiet THEN <<>> ELSE <<"OKAY">>]_vars

\* After the escape sequence the line `O` has brought the session back
\* online.
C20_Witness ==
    /\ modem.online /\ ~modem.on_hook /\ modem.in_call
    /\ chr = REG_CR(modem)
    /\ log = <<[h |-> "ht_ATO", i |-> 0, a |-> -1]>>
    /\ ResultNames(out) = <<"OKAY">>

-----------------------------------------------------------------------------
(* The call state: dial, answer, hang up, go online, replay, escape.       *)

CallScripts ==
    {<<>>,
     Str(<<"A", "T", "D", "L", "CR">>),
     Str(<<"A", "T", "D", "5", ";", "CR", "A", "T", "H", "0", "CR">>),
     Str(<<"A", "T", "A", "0", "H", "1", "CR">>),
     Str(<<"A", "T", "D", "T", "5", "CR", "+", "+", "+", "A", "T", "H", "CR", "A", "/">>),
     Str(<<"+", "+", "+", "A", "T", "H", "0", "D", "5", "CR", "+", "+", "+", "A", "/">>)}

InitCall == InitWith(CallScripts, Bytes(<<"A", "T", "D", "O", "H", "CR">>))

SpecCall == InitCall /\ [][Next]_vars

\* C21: whenever a call of the handler has returned, online implies in_call
\* and not on_hook.
C21_OnlineHasCall ==
    modem.online => (modem.in_call /\ ~modem.on_hook)

\* The modem is online after a dial that followed a hang-up on the same line.
C21_Witness ==
    /\ modem.online /\ modem.in_call /\ ~modem.on_hook
    /\ Len(log) = 2
    /\ log[1].h \in {"htz_ATH", "ht_ATH"}
    /\ log[2].h = "ht_ATD"

-----------------------------------------------------------------------------
(* Characters left in the buffer by an earlier line.                       *)

StaleScripts ==
    {<<>>,
     Str(<<"A", "T", "S", "6", "?", "CR", "A", "T", "S", "6", "CR">>),
     Str(<<"A", "T", "S", "6", "=", "5", "CR", "A", "T", "S", "6", "=", "CR">>),
     Str(<<"A", "T", "E", "1", "CR", "A", "T", "E", "CR">>)}

InitStale == InitWith(StaleScripts, Bytes(<<"A", "T", "S", "6", "CR">>))

SpecStale == InitStale /\ [][Next]_vars

\* h_cmdparse on the line `line` in a buffer that holds nothing else.
FreshDispatch(line, ub) ==
    h_cmdparse(
        [Enter(modem) EXCEPT
            !.in_cmd = TRUE,
            !.cmd_i = Len(line),
            !.cmdbuf = [k \in 1 .. CMDBUF_LEN |->
                          IF k <= Len(line) THEN line[k] ELSE 0]],
        ub)

\* C22: the dispatch of a line does what the dispatch of the same line does
\* in a buffer that holds nothing beyond buffer_length: the commands
\* dispatched, the results emitted and the state left are the same.
C22_StaleCharactersIgnored ==
    [][(~modem.online /\ modem.in_cmd /\ chr' = REG_CR(modem))
       => \E ub \in UB : SameDispatch(FreshDispatch(Line(modem), ub))]_vars

-----------------------------------------------------------------------------
(* The escape counter.                                                     *)

\* C23: n_escs is 0, 1 or 2, it is greater than 0 exactly when in_esc is
\* true, and it is 0 whenever the session is offline.
C23_EscapeCountRange ==
    /\ modem.n_escs \in 0 .. 2
    /\ (modem.n_escs > 0) = modem.in_esc
    /\ ~modem.online => modem.n_escs = 0

-----------------------------------------------------------------------------
(* A result for every line.                                                *)

SilentScripts ==
    {<<>>,
     Str(<<"A", "T", "X", "3", "CR">>),
     Str(<<"A", "T", "H", "0", "CR">>),
     Str(<<"A", "T", "x", "x", "CR">>),
     Str(<<"A", "T", "Q", "1", "CR">>)}

InitSilent == InitWith(SilentScripts, Bytes(<<"A", "T", "H", "0", "CR">>))

SpecSilent == InitSilent /\ [][Next]_vars

\* C24: with quiet off, the call that receives the carriage return ending a
\* command line emits at least one result code, unless the line resets the
\* modem.
C24_EveryLineAnswered ==
    [][(~modem.online /\ modem.in_cmd /\ ~modem.quiet
          /\ chr' = REG_CR(modem) /\ sys' = "running")
       => Results(out') # <<>>]_vars

====
